---- MODULE Spec2Model ----
(***************************************************************************)
(* Model of match_filter.py: a MARCXML collection is reconciled against an *)
(* index of identifiers; records whose 028$a identifiers are all absent    *)
(* from the index are exported to an audit file, the source is backed up,  *)
(* and the records are decomposed from the tree, which is written back.    *)
(*                                                                         *)
(* Text is a sequence of one-character strings so that str.strip() is      *)
(* computed, not assumed.  A record of the document is                     *)
(*   [key, split, cf003, fields]                                           *)
(* key    the .text of its controlfield 001                                *)
(* split  TRUE when that controlfield has several child nodes, so that its *)
(*        .string is None although its .text is key                        *)
(* cf003  the text of a second controlfield (tag 003), or NoField          *)
(* fields its datafields, each [tag, code, text] with code the code of the *)
(*        first subfield and text the datafield's .text                    *)
(* The tree (soup) is the sequence of the positions, in the parsed         *)
(* document, of the records still attached.                                *)
(***************************************************************************)
EXTENDS Integers, Sequences, FiniteSets, TLC

VARIABLES pc, index, orig, source, soup, collection, matched, unmatched,
          audit, backup, rerun

vars == <<pc, index, orig, source, soup, collection, matched, unmatched,
          audit, backup, rerun>>

\* ---------------------------------------------------------------- bounds
MaxRecords == 2
MaxPairs == 3

\* ---------------------------------------------------------------- inputs
NoField == "none"

Keys == {"rec1", "rec2"}

T1 == <<"1">>
T9 == <<"9">>
T1pad == <<" ", "1", "\n">>

Ids == {T1, T9}
Texts == {<<>>, T1, T9, T1pad, <<"\t", "9">>, <<"1", " ", "1">>, <<" ">>}

F(tag, code, text) == [tag |-> tag, code |-> code, text |-> text]

FieldLists ==
  { <<>>,
    <<F("028", "a", T1)>>,
    <<F("028", "a", T9)>>,
    <<F("028", "a", T9), F("028", "a", T1pad)>>,
    <<F("028", "b", T1)>> }

Records ==
  [key : Keys, split : BOOLEAN, cf003 : Keys \cup {NoField}, fields : FieldLists]

SeqsUpTo(S, n) == UNION {[1..k -> S] : k \in 0..n}

Range(s) == {s[i] : i \in 1..Len(s)}

Perms(S) == {s \in [1..Cardinality(S) -> S] : Range(s) = S}

\* ------------------------------------------------------------ str.strip
Whitespace == {" ", "\n", "\t"}

RECURSIVE LStrip(_)
LStrip(t) ==
  IF t # <<>> /\ Head(t) \in Whitespace THEN LStrip(Tail(t)) ELSE t

RECURSIVE RStrip(_)
RStrip(t) ==
  IF t # <<>> /\ t[Len(t)] \in Whitespace
    THEN RStrip(SubSeq(t, 1, Len(t) - 1))
    ELSE t

Strip(t) == RStrip(LStrip(t))

\* -------------------------------------------------------- parse_marcxml
\* line 75: the datafields that contribute a pair
Qualifies(f) == f.tag = "028" /\ f.code = "a"

RECURSIVE RecordPairs(_, _)
RecordPairs(key, fields) ==
  IF fields = <<>> THEN <<>>
  ELSE (IF Qualifies(Head(fields)) THEN <<<<key, Head(fields).text>>>> ELSE <<>>)
       \o RecordPairs(key, Tail(fields))

\* lines 70-78: one (key, text) pair per qualifying datafield, document order
RECURSIVE scn_collection(_)
scn_collection(doc) ==
  IF doc = <<>> THEN <<>>
  ELSE RecordPairs(Head(doc).key, Head(doc).fields) \o scn_collection(Tail(doc))

\* ---------------------------------------------------- diff_index_records
RECURSIVE matching_record_idsNoStrip(_, _)
matching_record_idsNoStrip(idx, coll) ==
  IF coll = <<>> THEN <<>>
  ELSE (IF Head(coll)[2] \in idx THEN <<Head(coll)[1]>> ELSE <<>>)
       \o matching_record_idsNoStrip(idx, Tail(coll))

\* lines 88-91
RECURSIVE matching_record_ids(_, _)
matching_record_ids(idx, coll) ==
  IF coll = <<>> THEN <<>>
  ELSE (IF Strip(Head(coll)[2]) \in idx THEN <<Head(coll)[1]>> ELSE <<>>)
       \o matching_record_ids(idx, Tail(coll))

\* line 93: list(dict.fromkeys(l)), first occurrences in order
RECURSIVE Dedup(_)
Dedup(l) ==
  IF l = <<>> THEN <<>>
  ELSE LET front == Dedup(SubSeq(l, 1, Len(l) - 1))
           last == l[Len(l)]
       IN IF last \in Range(front) THEN front ELSE Append(front, last)

matching_whitelist_uniq(idx, coll) == Dedup(matching_record_ids(idx, coll))

CollectionKeys(coll) == {coll[i][1] : i \in 1..Len(coll)}

diff_index_recordsNoSubtract(idx, coll) == CollectionKeys(coll)

diff_index_recordsMatched(idx, coll) == Range(matching_whitelist_uniq(idx, coll))

\* line 95
diff_index_records(idx, coll) ==
  CollectionKeys(coll) \ Range(matching_whitelist_uniq(idx, coll))

\* ------------------------------------------------------------ tree lookup
\* Tag.string of a controlfield: None when the tag has several children
CfStrings(r) ==
  (IF r.split THEN {} ELSE {r.key}) \cup (IF r.cf003 = NoField THEN {} ELSE {r.cf003})

\* the first element of s that is in hits, 0 when there is none (find returns None)
FirstIn(s, hits) ==
  IF \E i \in 1..Len(s) : s[i] \in hits
    THEN s[CHOOSE i \in 1..Len(s) : s[i] \in hits /\ \A j \in 1..(i - 1) : s[j] \notin hits]
    ELSE 0

\* line 104: soup.find('marc:controlfield', string=u).parent
ExportFind(doc, s, u) ==
  FirstIn(s, {p \in 1..Len(doc) : u \in CfStrings(doc[p])})

\* line 138: soup.find('marc:controlfield', {"tag": "001"}, string=unmatch).parent
RemoveFind(doc, s, u) ==
  FirstIn(s, {p \in 1..Len(doc) : ~doc[p].split /\ doc[p].key = u})

Without(s, p) == SelectSeq(s, LAMBDA q : q # p)

\* lines 101-106: the located records in iteration order, failed lookups skipped
RECURSIVE unmatched_records(_, _, _)
unmatched_records(doc, s, order) ==
  IF order = <<>> THEN <<>>
  ELSE LET p == ExportFind(doc, s, Head(order))
       IN (IF p = 0 THEN <<>> ELSE <<p>>) \o unmatched_records(doc, s, Tail(order))

\* lines 135-141: decompose in iteration order; a failed lookup raises out of
\* the except clause (click.echo(...) is None, and None has no .format)
RECURSIVE RemoveLoop(_, _, _)
RemoveLoop(doc, s, order) ==
  IF order = <<>> THEN [soup |-> s, raised |-> FALSE]
  ELSE LET p == RemoveFind(doc, s, Head(order))
       IN IF p = 0 THEN [soup |-> s, raised |-> TRUE]
          ELSE RemoveLoop(doc, Without(s, p), Tail(order))

\* str(soup): the records still attached, document order
Serialize(doc, s) == [i \in 1..Len(s) |-> doc[s[i]]]

NoAudit == [exists |-> FALSE, count |-> 0, recs |-> <<>>]
NoBackup == [exists |-> FALSE, content |-> <<>>]
NoRerun == [ran |-> FALSE, collection |-> <<>>, unmatched |-> {}]

\* ----------------------------------------------------------------- Init
Init ==
  /\ pc = "start"
  /\ index \in SUBSET Ids
  /\ orig \in SeqsUpTo(Records, MaxRecords)
  /\ source = orig
  /\ soup = <<>>
  /\ collection = <<>>
  /\ matched = <<>>
  /\ unmatched = {}
  /\ audit = NoAudit
  /\ backup = NoBackup
  /\ rerun = NoRerun

\* ---------------------------------------------------------------- actions
\* process line 26.  The documents of Init have one top-level node, the
\* collection element, so the extraction of lines 66-68 finds nothing to drop.
ParseMarcxml ==
  /\ pc = "start"
  /\ soup' = [i \in 1..Len(source) |-> i]
  /\ collection' = scn_collection(source)
  /\ pc' = "parsed"
  /\ UNCHANGED <<index, orig, source, matched, unmatched, audit, backup, rerun>>

DiffIndexRecordsNoExit ==
  /\ pc = "parsed"
  /\ matched' = matching_whitelist_uniq(index, collection)
  /\ unmatched' = diff_index_records(index, collection)
  /\ pc' = "found"
  /\ UNCHANGED <<index, orig, source, soup, collection, audit, backup, rerun>>

\* process lines 28-33
DiffIndexRecords ==
  /\ pc = "parsed"
  /\ matched' = matching_whitelist_uniq(index, collection)
  /\ unmatched' = diff_index_records(index, collection)
  /\ pc' = IF Cardinality(unmatched') # 0 THEN "found" ELSE "exited"
  /\ UNCHANGED <<index, orig, source, soup, collection, audit, backup, rerun>>

SaveUnmatchedRecordsDetaching ==
  /\ pc = "found"
  /\ \E order \in Perms(unmatched) :
       LET found == unmatched_records(orig, soup, order)
       IN /\ audit' = [exists |-> TRUE,
                       count |-> Cardinality(unmatched),
                       recs |-> found]
          /\ soup' = SelectSeq(soup, LAMBDA q : q \notin Range(found))
  /\ pc' = "saved"
  /\ UNCHANGED <<index, orig, source, collection, matched, unmatched, backup, rerun>>

\* process line 35
SaveUnmatchedRecords ==
  /\ pc = "found"
  /\ \E order \in Perms(unmatched) :
       audit' = [exists |-> TRUE,
                 count |-> Cardinality(unmatched),
                 recs |-> unmatched_records(orig, soup, order)]
  /\ pc' = "saved"
  /\ UNCHANGED <<index, orig, source, soup, collection, matched, unmatched, backup, rerun>>

\* process line 38, cp exits 0
CreateBackupOk ==
  /\ pc = "saved"
  /\ backup' = [exists |-> TRUE, content |-> source]
  /\ pc' = "backedup"
  /\ UNCHANGED <<index, orig, source, soup, collection, matched, unmatched, audit, rerun>>

CreateBackupFailIgnored ==
  /\ pc = "saved"
  /\ pc' = "backedup"
  /\ UNCHANGED <<index, orig, source, soup, collection, matched, unmatched, audit, backup, rerun>>

\* process line 38, cp exits non-zero: create_backup returns None
CreateBackupFail ==
  /\ pc = "saved"
  /\ pc' = "aborted"
  /\ UNCHANGED <<index, orig, source, soup, collection, matched, unmatched, audit, backup, rerun>>

\* process line 39
RemoveUnmatched ==
  /\ pc = "backedup"
  /\ \E order \in Perms(unmatched) :
       LET res == RemoveLoop(orig, soup, order)
       IN /\ soup' = res.soup
          /\ IF res.raised
               THEN pc' = "crashed" /\ source' = source
               ELSE pc' = "done" /\ source' = Serialize(orig, res.soup)
  /\ UNCHANGED <<index, orig, collection, matched, unmatched, audit, backup, rerun>>

\* a fresh run, same index, on the audit file of a finished run: process lines 26-28
RerunOnAudit ==
  /\ pc = "done"
  /\ ~rerun.ran
  /\ LET coll == scn_collection(Serialize(orig, audit.recs))
     IN rerun' = [ran |-> TRUE,
                  collection |-> coll,
                  unmatched |-> diff_index_records(index, coll)]
  /\ UNCHANGED <<pc, index, orig, source, soup, collection, matched, unmatched, audit, backup>>

Next ==
  \/ ParseMarcxml
  \/ DiffIndexRecords
  \/ SaveUnmatchedRecords
  \/ CreateBackupOk
  \/ CreateBackupFail
  \/ RemoveUnmatched
  \/ RerunOnAudit

Spec == Init /\ [][Next]_vars

\* ------------------------------------------- the matcher on its own inputs
MatchInit ==
  /\ pc = "parsed"
  /\ index \in SUBSET Ids
  /\ collection \in SeqsUpTo(Keys \X Texts, MaxPairs)
  /\ orig = <<>>
  /\ source = <<>>
  /\ soup = <<>>
  /\ matched = <<>>
  /\ unmatched = {}
  /\ audit = NoAudit
  /\ backup = NoBackup
  /\ rerun = NoRerun

MatchNext == DiffIndexRecords

MatchSpec == MatchInit /\ [][MatchNext]_vars

\* ================================================================ claims
FullTree == [i \in 1..Len(orig) |-> i]

Detached == {p \in 1..Len(orig) : p \notin Range(soup)}

Diffed == pc \notin {"start", "parsed"}

\* the text between the first and the last non-whitespace character
Trimmed(t) ==
  LET solid == {i \in 1..Len(t) : t[i] \notin Whitespace}
  IN IF solid = {} THEN <<>>
     ELSE SubSeq(t, CHOOSE i \in solid : \A j \in solid : i <= j,
                    CHOOSE i \in solid : \A j \in solid : i >= j)

\* C1: the matched keys and the unmatched keys returned by diff_index_records
\* are disjoint and together are the distinct keys of the collection.
C1_Partition ==
  Diffed =>
    /\ Range(matched) \cap unmatched = {}
    /\ Range(matched) \cup unmatched = CollectionKeys(collection)

C1_Witness == Diffed /\ matched # <<>> /\ unmatched # {}

\* C2: a key is matched exactly when at least one of its pairs has a trimmed
\* identifier text in the index, whatever the order and the duplicates.
C2_MatchedIffAny ==
  Diffed =>
    \A k \in Keys :
      k \in Range(matched) <=>
        \E i \in 1..Len(collection) :
          collection[i][1] = k /\ Trimmed(collection[i][2]) \in index

C2_Witness ==
  /\ Diffed
  /\ \E i, j \in 1..Len(collection) :
       /\ i < j
       /\ collection[i][1] = "rec1" /\ collection[j][1] = "rec1"
       /\ Trimmed(collection[i][2]) \notin index
       /\ collection[j][2] # Trimmed(collection[j][2])
       /\ Trimmed(collection[j][2]) \in index
  /\ "rec1" \in Range(matched)

\* C3: once done, the rewritten source holds no record with an unmatched key
\* and still holds every record with a matched key, duplicate keys included.
C3_SourceFiltered ==
  pc = "done" =>
    /\ \A i \in 1..Len(source) : source[i].key \notin unmatched
    /\ \A p \in 1..Len(orig) : orig[p].key \in Range(matched) => p \in Range(soup)

\* C4: once done, the audit file holds exactly the records that were detached
\* from the tree.
C4_AuditIsRemoved ==
  pc = "done" => Range(audit.recs) = Detached

\* C5: whenever the source differs from its pre-run content the backup exists
\* and equals the pre-run content; a failed backup aborts with source and tree
\* untouched.
C5_BackupBeforeMutation ==
  /\ source # orig => backup.exists /\ backup.content = orig
  /\ pc = "aborted" => source = orig /\ soup = FullTree /\ ~backup.exists

C5_Witness == pc = "done" /\ source # orig /\ backup.exists

\* C6: with no unmatched key the run exits at once: no audit file, no backup,
\* tree and source unchanged.
C6_EmptyShortCircuit ==
  (Diffed /\ unmatched = {}) =>
    /\ pc = "exited"
    /\ ~audit.exists
    /\ ~backup.exists
    /\ source = orig
    /\ soup = FullTree

C6_Witness == pc = "exited" /\ matched # <<>> /\ Len(orig) > 1

\* C7 as stated: a run on the audit file with the same index finds no
\* unmatched record.
C7_RerunZeroUnmatched == rerun.ran => rerun.unmatched = {}

\* C7 as amended: a run on the audit file with the same index classifies as
\* unmatched again every key of the audit collection that the first run
\* classified as unmatched.
C7_RerunReproduces ==
  rerun.ran =>
    \A k \in CollectionKeys(rerun.collection) :
      k \in unmatched => k \in rerun.unmatched

C7_Witness ==
  rerun.ran /\ rerun.unmatched # {} /\ rerun.unmatched = unmatched

\* C8: a lookup failure in remove_unmatched is not fatal: the call always
\* ends with the tree written back over the source and the run done.
C8_LookupFailureNonFatal ==
  [][pc = "backedup" /\ pc' # pc =>
       pc' = "done" /\ source' = Serialize(orig, soup')]_vars

\* C9: a record without a qualifying field (028 with subfield a) is unmatched:
\* its key is among the unmatched keys once the matcher has run.
C9_ZeroFieldsUnmatched ==
  Diffed =>
    \A p \in 1..Len(orig) :
      (\A i \in 1..Len(orig[p].fields) : ~Qualifies(orig[p].fields[i]))
        => orig[p].key \in unmatched

\* C10: the audit file is written from the unmutated tree and its writing
\* leaves the tree alone; after parsing the tree changes only in
\* remove_unmatched, when the audit file already exists.
C10_ExportBeforeMutation ==
  [][/\ audit' # audit => soup = FullTree /\ soup' = soup
     /\ (pc # "start" /\ soup' # soup) =>
          pc = "backedup" /\ audit.exists /\ audit' = audit]_vars

C10_Witness == pc = "done" /\ audit.exists /\ audit.recs # <<>> /\ soup # FullTree

====
